---------------------------- MODULE Spec2Model ----------------------------
(***************************************************************************)
(* A model of main.py, the lender scraper: scrape() (the batch runner),    *)
(* get_page_html() (the page fetcher), parse_with_gemini() (the structured *)
(* extractor), fallback_parse_lender_data() (the keyword fallback) and     *)
(* write_csv() (the tabular writer).                                       *)
(*                                                                         *)
(* Python values are records [t, v]: t is the Python type, v its content   *)
(* as a string.  A dict is a sequence of [k, v] pairs in insertion order.  *)
(* A response text of the language model is a sequence of tokens; a page   *)
(* text is a sequence of atoms (keyword phrases, word characters, blanks). *)
(***************************************************************************)
EXTENDS Integers, Sequences, FiniteSets, TLC

VARIABLES
    pc,       \* position of scrape()/main: "fetch", "reduce", "extract", "normalize", "done", "written", "crashed"
    i,        \* 1-based index into LENDERS of the lender of the current iteration
    today,    \* the wall clock's day (datetime.today())
    as_of,    \* scrape()'s local as_of
    rows,     \* scrape()'s local rows: the result sequence
    log,      \* the lines of scrape_errors.log appended by this run
    browser,  \* what the last get_page_html() call did to its browser
    html,     \* scrape()'s local html
    text,     \* scrape()'s local text
    resp,     \* the last response of the language-model service
    parsed,   \* scrape()'s local parsed
    hist,     \* history: one entry per finished loop iteration
    out       \* lenders_output.csv as write_csv() left it

vars == <<pc, i, today, as_of, rows, log, browser, html, text, resp, parsed, hist, out>>

(***************************************************************************)
(* Bounds of the model.                                                    *)
(***************************************************************************)
\* the clock advances at most to this day during a run (day 1 is the start)
MaxDay == 2
\* response texts of the exhaustive extractor check have at most this many tokens
MaxTextLen == 5
\* page texts of the exhaustive fallback check have at most this many atoms
MaxPageLen == 3
\* record sequences handed to write_csv in its own check have at most this many records
MaxRows == 3

(***************************************************************************)
(* Python values.                                                          *)
(***************************************************************************)
Str(s) == [t |-> "str", v |-> s]
PyNone == [t |-> "NoneType", v |-> "None"]

\* bool(x) is False: None, "", 0, false, [] and {}
Falsy(x) ==
    \/ x.t = "NoneType"
    \/ x.t = "str" /\ x.v = ""
    \/ x.t = "int" /\ x.v = "0"
    \/ x.t = "bool" /\ x.v = "false"
    \/ x.t \in {"list", "dict"} /\ x.v = "empty"

\* dict operations on a sequence of [k, v] pairs with distinct keys
Keys(d) == [n \in 1..Len(d) |-> d[n].k]
HasKey(d, key) == \E n \in 1..Len(d) : d[n].k = key
\* d.get(key): None when the key is absent
DictGet(d, key) ==
    IF HasKey(d, key) THEN d[CHOOSE n \in 1..Len(d) : d[n].k = key].v ELSE PyNone
\* d[key] = val: an existing key keeps its position, a new key goes last
DictSet(d, key, val) ==
    IF HasKey(d, key)
    THEN [n \in 1..Len(d) |-> IF d[n].k = key THEN [k |-> key, v |-> val] ELSE d[n]]
    ELSE Append(d, [k |-> key, v |-> val])

(***************************************************************************)
(* Response texts: sequences of tokens.  A token is a punctuation          *)
(* character, a JSON string literal (without braces in it), another JSON   *)
(* literal, a blank, or a word of commentary.                              *)
(***************************************************************************)
P(c) == [k |-> "punct", s |-> c]
S(x) == [k |-> "string", s |-> x]
L(x) == [k |-> "literal", s |-> x]
WS == [k |-> "space", s |-> " "]
J(x) == [k |-> "junk", s |-> x]

LBrace == P("{")
RBrace == P("}")
LBrack == P("[")
RBrack == P("]")
Colon == P(":")
Comma == P(",")

\* str.strip(): leading and trailing whitespace removed
RECURSIVE LStrip(_)
LStrip(s) == IF s # <<>> /\ Head(s) = WS THEN LStrip(Tail(s)) ELSE s
RECURSIVE RStrip(_)
RStrip(s) == IF s # <<>> /\ s[Len(s)] = WS THEN RStrip(SubSeq(s, 1, Len(s) - 1)) ELSE s
Strip(s) == RStrip(LStrip(s))

\* str.startswith(c)
StartsWith(s, c) == s # <<>> /\ s[1] = c

\* str.find(c), str.rfind(c): the 0-based index of the first/last c, -1 when there is none
Find(s, c) ==
    IF \E n \in 1..Len(s) : s[n] = c
    THEN (CHOOSE n \in 1..Len(s) : s[n] = c /\ \A m \in 1..(n - 1) : s[m] # c) - 1
    ELSE -1
RFind(s, c) ==
    IF \E n \in 1..Len(s) : s[n] = c
    THEN (CHOOSE n \in 1..Len(s) : s[n] = c /\ \A m \in (n + 1)..Len(s) : s[m] # c) - 1
    ELSE -1

\* s[start:end] with 0-based bounds; a negative bound counts from the end
SliceIndex(s, n) ==
    IF n < 0 THEN (IF n + Len(s) < 0 THEN 0 ELSE n + Len(s))
    ELSE (IF n > Len(s) THEN Len(s) ELSE n)
Slice(s, start, end) == SubSeq(s, SliceIndex(s, start) + 1, SliceIndex(s, end))

(***************************************************************************)
(* json.loads on a token sequence: a recursive-descent decoder.  The       *)
(* result of a (sub)value is [ok, nxt, val, d]: whether it decoded, the    *)
(* index after it, its Python value and, for an object, its pairs.         *)
(***************************************************************************)
At(s, n) == IF n \in 1..Len(s) THEN s[n] ELSE [k |-> "eof", s |-> ""]

RECURSIVE SkipWs(_, _)
SkipWs(s, n) == IF n <= Len(s) /\ s[n] = WS THEN SkipWs(s, n + 1) ELSE n

DecodeError == [ok |-> FALSE, nxt |-> 0, val |-> PyNone, d |-> <<>>]

LiteralValue(tok) ==
    CASE tok.s = "null" -> PyNone
      [] tok.s \in {"true", "false"} -> [t |-> "bool", v |-> tok.s]
      [] OTHER -> [t |-> "int", v |-> tok.s]

RECURSIVE ParseValue(_, _)
RECURSIVE ParseMembers(_, _, _)
RECURSIVE ParseElements(_, _)

\* a value starting at token n (whitespace already skipped)
ParseValue(s, n) ==
    LET tok == At(s, n)
        m == SkipWs(s, n + 1)
    IN  CASE tok.k = "string" ->
                [ok |-> TRUE, nxt |-> n + 1, val |-> Str(tok.s), d |-> <<>>]
          [] tok.k = "literal" ->
                [ok |-> TRUE, nxt |-> n + 1, val |-> LiteralValue(tok), d |-> <<>>]
          [] tok = LBrace ->
                IF At(s, m) = RBrace
                THEN [ok |-> TRUE, nxt |-> m + 1,
                      val |-> [t |-> "dict", v |-> "empty"], d |-> <<>>]
                ELSE ParseMembers(s, m, <<>>)
          [] tok = LBrack ->
                IF At(s, m) = RBrack
                THEN [ok |-> TRUE, nxt |-> m + 1,
                      val |-> [t |-> "list", v |-> "empty"], d |-> <<>>]
                ELSE ParseElements(s, m)
          [] OTHER -> DecodeError

\* the members of an object from the key at token n on; acc holds the pairs so far
\* (a repeated key keeps its first position and takes the last value)
ParseMembers(s, n, acc) ==
    LET key == At(s, n)
        c == SkipWs(s, n + 1)
    IN  IF key.k # "string" \/ At(s, c) # Colon
        THEN DecodeError
        ELSE LET r == ParseValue(s, SkipWs(s, c + 1))
             IN  IF ~r.ok
                 THEN DecodeError
                 ELSE LET acc2 == DictSet(acc, key.s, r.val)
                          e == SkipWs(s, r.nxt)
                      IN  IF At(s, e) = RBrace
                          THEN [ok |-> TRUE, nxt |-> e + 1,
                                val |-> [t |-> "dict", v |-> "nonempty"], d |-> acc2]
                          ELSE IF At(s, e) = Comma
                               THEN ParseMembers(s, SkipWs(s, e + 1), acc2)
                               ELSE DecodeError

\* the elements of an array from the value at token n on
ParseElements(s, n) ==
    LET r == ParseValue(s, n)
    IN  IF ~r.ok
        THEN DecodeError
        ELSE LET e == SkipWs(s, r.nxt)
             IN  IF At(s, e) = RBrack
                 THEN [ok |-> TRUE, nxt |-> e + 1,
                       val |-> [t |-> "list", v |-> "nonempty"], d |-> <<>>]
                 ELSE IF At(s, e) = Comma
                      THEN ParseElements(s, SkipWs(s, e + 1))
                      ELSE DecodeError

\* json.loads(s): one value, surrounded by optional whitespace, and nothing else
JsonLoads(s) ==
    LET r == ParseValue(s, SkipWs(s, 1))
    IN  IF r.ok /\ SkipWs(s, r.nxt) > Len(s)
        THEN [ok |-> TRUE, val |-> r.val, d |-> r.d]
        ELSE [ok |-> FALSE, val |-> PyNone, d |-> <<>>]

(***************************************************************************)
(* parse_with_gemini.  A response of the service is [kind, text]: kind is  *)
(* "error" (generate_content raised), "notext" (response.text is None) or  *)
(* "text".  A result is [raised, val, d].                                  *)
(***************************************************************************)
NoneResult == [raised |-> FALSE, val |-> PyNone, d |-> <<>>]
Raised == [raised |-> TRUE, val |-> PyNone, d |-> <<>>]

\* JsonStr with end = text.rfind('}'), the "+ 1" forgotten
JsonStr_EndAtRFind(stripped) ==
    IF ~StartsWith(stripped, LBrace)
    THEN Slice(stripped, Find(stripped, LBrace), RFind(stripped, RBrace))
    ELSE stripped

\* JsonStr without lines 61-64: the whole text goes to json.loads
JsonStr_WholeText(stripped) == stripped

\* lines 61-64: the text handed to json.loads
JsonStr(stripped) ==
    IF ~StartsWith(stripped, LBrace)
    THEN Slice(stripped, Find(stripped, LBrace), RFind(stripped, RBrace) + 1)
    ELSE stripped

\* lines 58-65, the body of the try: what it returns, or that it raised
GeminiTryBody(response) ==
    IF response.kind # "text"
    THEN Raised
    ELSE LET r == JsonLoads(JsonStr(Strip(response.text)))
         IN  IF r.ok THEN [raised |-> FALSE, val |-> r.val, d |-> r.d] ELSE Raised

\* parse_with_gemini without its except clause
parse_with_gemini_NoExcept(response) == GeminiTryBody(response)

\* lines 57-68: except Exception turns every raise of the body into None
parse_with_gemini(response) ==
    LET r == GeminiTryBody(response)
    IN  IF r.raised THEN NoneResult ELSE r

(***************************************************************************)
(* The lender list and the error log.                                      *)
(***************************************************************************)
LENDERS == <<
    [name |-> "36th Street Capital", url |-> "https://36thstreetcapital.com/", type |-> "Independent Lender"],
    [name |-> "Alliance Funding Group", url |-> "https://afg.com/", type |-> "Independent Lender"],
    [name |-> "Apple Bank", url |-> "https://www.applebank.com/", type |-> "Bank"],
    [name |-> "Associated Bank Equipment Finance", url |-> "https://www.associatedbank.com", type |-> "Bank"],
    [name |-> "Atlantic Union Equipment Finance", url |-> "https://www.atlanticunionbank.com/", type |-> "Bank"] >>

\* log_failure writing nothing
log_failure_Nothing(file, lender, reason) == file

\* log_failure: one line "<name> | <url> | <reason>" appended to the file
log_failure(file, lender, reason) ==
    Append(file, [name |-> lender.name, url |-> lender.url, reason |-> reason])

(***************************************************************************)
(* fallback_parse_lender_data.  A page text is a sequence of atoms: a      *)
(* keyword phrase in some letter case, the word character "z" (no keyword  *)
(* contains one, so no keyword spans two atoms), or a non-word character.  *)
(* Every keyword starts and ends with a word character, so \b holds on a   *)
(* side of a phrase exactly when no word character is next to it there.    *)
(***************************************************************************)
product_keywords == <<
    [product |-> "Term Loans", keywords |-> <<"term loan", "term financing">>],
    [product |-> "Unsecured Loans", keywords |-> <<"unsecured loan", "no collateral">>],
    [product |-> "Equipment Loans & Leases",
     keywords |-> <<"equipment financing", "equipment loan", "equipment lease">>],
    [product |-> "Lines of Credit", keywords |-> <<"line of credit", "credit line">>],
    [product |-> "Corporate Credit Cards", keywords |-> <<"business credit card", "corporate card">>],
    [product |-> "Venture Debt", keywords |-> <<"venture debt">>],
    [product |-> "Vendor Financing", keywords |-> <<"vendor financing", "dealer financing">>] >>

NonWordAtoms == {" ", ".", ","}
IsWord(atom) == atom \notin NonWordAtoms

\* the lower-case form of an atom (re.IGNORECASE compares letters without their case)
Lower(atom) ==
    CASE atom = "Term Loan" -> "term loan"
      [] atom = "TERM FINANCING" -> "term financing"
      [] atom = "Equipment Financing" -> "equipment financing"
      [] atom = "Equipment Lease" -> "equipment lease"
      [] atom = "Credit Line" -> "credit line"
      [] atom = "Z" -> "z"
      [] OTHER -> atom

\* re_search without the two \b
re_search_NoBoundary(keyword, txt) == \E n \in 1..Len(txt) : Lower(txt[n]) = keyword

\* re.search(rf"\b{keyword}\b", text, re.IGNORECASE)
re_search(keyword, txt) ==
    \E n \in 1..Len(txt) :
        /\ Lower(txt[n]) = keyword
        /\ n = 1 \/ ~IsWord(txt[n - 1])
        /\ n = Len(txt) \/ ~IsWord(txt[n + 1])

\* lines 86-89: the inner loop stops at the first keyword found
AnyKeyword(keywords, txt) == \E n \in 1..Len(keywords) : re_search(keywords[n], txt)

\* lines 85-89: the products of the table entries from n on, in table order
RECURSIVE MatchProducts(_, _)
MatchProducts(txt, n) ==
    IF n > Len(product_keywords)
    THEN <<>>
    ELSE (IF AnyKeyword(product_keywords[n].keywords, txt)
          THEN <<product_keywords[n].product>>
          ELSE <<>>) \o MatchProducts(txt, n + 1)

\* ", ".join(products)
RECURSIVE Join(_)
Join(products) ==
    IF products = <<>> THEN ""
    ELSE IF Len(products) = 1 THEN products[1]
    ELSE products[1] \o ", " \o Join(Tail(products))

Field(key, val) == [k |-> key, v |-> Str(val)]

\* lines 71-111
fallback_parse_lender_data(txt, lender, asof) ==
    LET products == MatchProducts(txt, 1)
    IN  << Field("Lender Name", lender.name),
           Field("Lender Type", lender.type),
           Field("General Product Types", IF products # <<>> THEN Join(products) ELSE "N/A"),
           Field("Finance Reasons", "N/A"),
           Field("Sub-Product Type", "N/A"),
           Field("Loan Amount", "N/A"),
           Field("Starting Rate", "N/A"),
           Field("Term Length", "N/A"),
           Field("Origination Fee", "N/A"),
           Field("Min Time in Business", "N/A"),
           Field("Min Revenue", "N/A"),
           Field("FICO Score", "N/A"),
           Field("Online Application Status", "N/A"),
           Field("Product Page URL", lender.url),
           Field("Geography Served", "N/A"),
           Field("Veteran Programs", "N/A"),
           Field("Minority Programs", "N/A"),
           Field("Notes", "Parsed with fallback parser"),
           Field("As-of Date", asof) >>

(***************************************************************************)
(* get_page_html.  fail names the step of the call that raises ("none":    *)
(* no step does); content is what page.content() returns.  The result is   *)
(* [raised, error, html, browser]; browser records whether the browser was *)
(* launched and whether browser.close() ran.                               *)
(***************************************************************************)
FetchSteps == {"launch", "new_page", "route", "goto", "content"}

\* lines 137-139, the body of the try
FetchTryBody(fail, content) ==
    IF fail \in {"route", "goto", "content"}
    THEN [raised |-> TRUE, html |-> PyNone]
    ELSE [raised |-> FALSE, html |-> content]

\* lines 129-145: launch and new_page stand before the try; except sets html to
\* None; finally closes the browser
get_page_html(fail, content) ==
    IF fail = "launch"
    THEN [raised |-> TRUE, error |-> fail, html |-> PyNone,
          browser |-> [launched |-> FALSE, closed |-> FALSE]]
    ELSE IF fail = "new_page"
    THEN [raised |-> TRUE, error |-> fail, html |-> PyNone,
          browser |-> [launched |-> TRUE, closed |-> FALSE]]
    ELSE LET body == FetchTryBody(fail, content)
         IN  [raised |-> FALSE, error |-> "",
              html |-> IF body.raised THEN PyNone ELSE body.html,
              browser |-> [launched |-> TRUE, closed |-> TRUE]]

(***************************************************************************)
(* scrape().                                                               *)
(***************************************************************************)
\* datetime.today().strftime('%Y-%m-%d') on day d of the model's month
DayOfMonth == <<"01", "02", "03", "04", "05", "06", "07", "08", "09">>
strftime(d) == "2025-06-" \o DayOfMonth[d]

\* NormalizeRecord stamping the date only where the extractor gave none
NormalizeRecord_KeepDate(d, lender, asof) ==
    LET d1 == IF HasKey(d, "As-of Date") THEN d ELSE DictSet(d, "As-of Date", Str(asof))
        name == DictGet(d1, "Lender Name")
        d2 == DictSet(d1, "Lender Name", IF Falsy(name) THEN Str(lender.name) ELSE name)
    IN  IF ~HasKey(d2, "Lender Type") \/ DictGet(d2, "Lender Type") = Str("N/A")
        THEN DictSet(d2, "Lender Type", Str(lender.type))
        ELSE d2

\* lines 178-181 on a dict
NormalizeRecord(d, lender, asof) ==
    LET d1 == DictSet(d, "As-of Date", Str(asof))
        name == DictGet(d1, "Lender Name")
        d2 == DictSet(d1, "Lender Name", IF Falsy(name) THEN Str(lender.name) ELSE name)
    IN  IF ~HasKey(d2, "Lender Type") \/ DictGet(d2, "Lender Type") = Str("N/A")
        THEN DictSet(d2, "Lender Type", Str(lender.type))
        ELSE d2

\* rows.append(parsed)
AppendRow(rs, rec) == Append(rs, rec)

\* the history entry of an iteration: which steps it passed, where its record came
\* from, and how many records and log lines it added
NewEntry(l) ==
    [lender |-> l, fetched |-> FALSE, reduced |-> FALSE, src |-> "none",
     rows |-> 0, lines |-> 0]
Last(h) == h[Len(h)]

\* the for statement takes the next lender, or the loop ends and scrape returns
Advance ==
    /\ i' = i + 1
    /\ pc' = IF i = Len(LENDERS) THEN "done" ELSE "fetch"

\* break in the place of continue: the loop ends at the first failure
Continue_Break ==
    /\ i' = i
    /\ pc' = "done"

\* continue (lines 164 and 188): on to the next lender
Continue == Advance

\* the clock passes midnight
Tick ==
    /\ pc \notin {"start", "done", "written", "crashed"}
    /\ today < MaxDay
    /\ today' = today + 1
    /\ UNCHANGED <<pc, i, as_of, rows, log, browser, html, text, resp, parsed, hist, out>>

\* lines 149-150
Start ==
    /\ pc = "start"
    /\ rows' = <<>>
    /\ as_of' = strftime(today)
    /\ i' = 1
    /\ pc' = "fetch"
    /\ UNCHANGED <<today, log, browser, html, text, resp, parsed, hist, out>>

\* lines 160-164, and 185-188 when get_page_html raises
Fetch ==
    /\ pc = "fetch"
    /\ \E fail \in FetchSteps \cup {"none"}, content \in {Str(""), Str("<html>")} :
        LET r == get_page_html(fail, content)
            newlog == IF r.raised
                      THEN log_failure(log, LENDERS[i], "Exception: " \o r.error)
                      ELSE IF Falsy(r.html)
                      THEN log_failure(log, LENDERS[i], "No HTML returned")
                      ELSE log
            ok == ~r.raised /\ ~Falsy(r.html)
        IN  /\ browser' = r.browser
            /\ html' = IF r.raised THEN html ELSE r.html
            /\ log' = newlog
            /\ hist' = Append(hist, [NewEntry(i) EXCEPT !.fetched = ok,
                                                        !.lines = Len(newlog) - Len(log)])
            /\ IF ok THEN pc' = "reduce" /\ i' = i ELSE Continue
    /\ UNCHANGED <<today, as_of, rows, text, resp, parsed, out>>

\* lines 166-167: the page's visible text is one of the texts in T
ReduceText(T) ==
    /\ pc = "reduce"
    /\ \E txt \in T : text' = txt
    /\ hist' = [hist EXCEPT ![Len(hist)].reduced = TRUE]
    /\ pc' = "extract"
    /\ UNCHANGED <<i, today, as_of, rows, log, browser, html, resp, parsed, out>>

\* lines 166-167 raise, then 185-188
ReduceRaises ==
    /\ pc = "reduce"
    /\ log' = log_failure(log, LENDERS[i], "Exception: text reduction")
    /\ hist' = [hist EXCEPT ![Len(hist)].lines = @ + (Len(log') - Len(log))]
    /\ Continue
    /\ UNCHANGED <<today, as_of, rows, browser, html, text, resp, parsed, out>>

\* lines 170-175 with response r of the service (185-188 should the extractor raise)
ExtractWith(r) ==
    /\ resp' = r
    /\ LET ai == parse_with_gemini(r)
           none == ai.val = PyNone
           newlog == IF ai.raised
                     THEN log_failure(log, LENDERS[i], "Exception: extractor")
                     ELSE IF none
                     THEN log_failure(log, LENDERS[i], "Gemini failed, used fallback")
                     ELSE log
       IN  /\ parsed' = IF ai.raised
                        THEN parsed
                        ELSE IF none
                        THEN [val |-> [t |-> "dict", v |-> "nonempty"],
                              d |-> fallback_parse_lender_data(text, LENDERS[i], as_of)]
                        ELSE [val |-> ai.val, d |-> ai.d]
           /\ log' = newlog
           /\ hist' = [hist EXCEPT ![Len(hist)].src = IF ai.raised THEN "none"
                                                     ELSE IF none THEN "fallback" ELSE "ai",
                                   ![Len(hist)].lines = @ + (Len(newlog) - Len(log))]
           /\ IF ai.raised THEN Continue ELSE pc' = "normalize" /\ i' = i
    /\ UNCHANGED <<today, as_of, rows, browser, html, text, out>>

\* the service answers with one of the responses in R
Extract(R) ==
    /\ pc = "extract"
    /\ \E r \in R : ExtractWith(r)

\* lines 178-183; an item assignment on a value that is no dict raises TypeError,
\* then 185-188
Normalize ==
    /\ pc = "normalize"
    /\ IF parsed.val.t = "dict"
       THEN LET rec == NormalizeRecord(parsed.d, LENDERS[i], as_of)
            IN  /\ parsed' = [val |-> [t |-> "dict", v |-> "nonempty"], d |-> rec]
                /\ rows' = AppendRow(rows, rec)
                /\ hist' = [hist EXCEPT ![Len(hist)].rows = @ + (Len(rows') - Len(rows))]
                /\ log' = log
                /\ Advance
       ELSE /\ log' = log_failure(log, LENDERS[i], "Exception: TypeError")
            /\ hist' = [hist EXCEPT ![Len(hist)].lines = @ + (Len(log') - Len(log))]
            /\ Continue
            /\ UNCHANGED <<parsed, rows>>
    /\ UNCHANGED <<today, as_of, browser, html, text, resp, out>>

(***************************************************************************)
(* write_csv, called by the main block with what scrape() returned.        *)
(***************************************************************************)
\* ExtraKeys of a writer made with extrasaction="ignore"
ExtraKeys_Ignored(row, fieldnames) == {}

\* DictWriter._dict_to_list: a key of the row that is no field name raises
\* ValueError; a field the row lacks is written as restval, the empty string
ExtraKeys(row, fieldnames) ==
    {row[n].k : n \in 1..Len(row)} \ {fieldnames[n] : n \in 1..Len(fieldnames)}
DictToList(row, fieldnames) ==
    [n \in 1..Len(fieldnames) |->
        IF HasKey(row, fieldnames[n]) THEN DictGet(row, fieldnames[n]) ELSE Str("")]

\* writer.writerows(rows): rows are written one by one up to the first that raises
RECURSIVE WriteRows(_, _, _)
WriteRows(rs, fieldnames, written) ==
    IF rs = <<>>
    THEN [raised |-> FALSE, lines |-> written]
    ELSE IF ExtraKeys(Head(rs), fieldnames) # {}
    THEN [raised |-> TRUE, lines |-> written]
    ELSE WriteRows(Tail(rs), fieldnames, Append(written, DictToList(Head(rs), fieldnames)))

\* lines 193-202: the file it leaves, and whether it raised
write_csv(rs, file) ==
    IF rs = <<>>
    THEN [raised |-> FALSE, file |-> file]
    ELSE LET keys == Keys(rs[1])
             w == WriteRows(rs, keys, <<>>)
         IN  [raised |-> w.raised,
              file |-> [exists |-> TRUE, header |-> keys, lines |-> w.lines]]

NoFile == [exists |-> FALSE, header |-> <<>>, lines |-> <<>>]

\* line 207
WriteCsv ==
    /\ pc = "done"
    /\ LET w == write_csv(rows, out)
       IN  /\ out' = w.file
           /\ pc' = IF w.raised THEN "crashed" ELSE "written"
    /\ UNCHANGED <<i, today, as_of, rows, log, browser, html, text, resp, parsed, hist>>

(***************************************************************************)
(* The run of the program: main calls scrape(), then write_csv().          *)
(***************************************************************************)
NoResponse == [kind |-> "none", text |-> <<>>]
ServiceError == [kind |-> "error", text |-> <<>>]
NoText == [kind |-> "notext", text |-> <<>>]
Text(t) == [kind |-> "text", text |-> t]

\* the page texts and the responses a run draws from
ScrapePages == { <<"z", " ", "Equipment Financing", " ", "z">> }
ScrapeResponses ==
    { ServiceError,
      \* Sure! {"Lender Name": "X"}
      Text(<<J("Sure!"), WS, LBrace, S("Lender Name"), Colon, WS, S("X"), RBrace>>),
      \* {"Lender Name": "N/A", "Lender Type": null, "As-of Date": "1999-01-01"}
      Text(<<LBrace, S("Lender Name"), Colon, S("N/A"), Comma, S("Lender Type"), Colon,
             L("null"), Comma, S("As-of Date"), Colon, S("1999-01-01"), RBrace>>),
      \* [{"Lender Name": "X"}, {"Lender Name": "Y"}]
      Text(<<LBrack, LBrace, S("Lender Name"), Colon, S("X"), RBrace, Comma, WS,
             LBrace, S("Lender Name"), Colon, S("Y"), RBrace, RBrack>>) }

Init ==
    /\ pc = "start"
    /\ i = 1
    /\ today = 1
    /\ as_of = ""
    /\ rows = <<>>
    /\ log = <<>>
    /\ browser = [launched |-> FALSE, closed |-> FALSE]
    /\ html = PyNone
    /\ text = <<>>
    /\ resp = NoResponse
    /\ parsed = [val |-> PyNone, d |-> <<>>]
    /\ hist = <<>>
    /\ out = NoFile

Step ==
    \/ Start
    \/ Fetch
    \/ ReduceText(ScrapePages)
    \/ ReduceRaises
    \/ Extract(ScrapeResponses)
    \/ Normalize

Next == Tick \/ Step \/ WriteCsv

Spec == Init /\ [][Next]_vars

\* the interpreter runs the next statement, and every call to the browser or to the
\* service returns
FairSpec == Init /\ [][Next]_vars /\ WF_vars(Step)

(***************************************************************************)
(* The extractor on every short response text: the run stands at line 170  *)
(* of the first iteration, the page fetched and reduced.                   *)
(***************************************************************************)
SeqsUpTo(A, n) == UNION {[1..k -> A] : k \in 0..n}

ParseAlphabet == {LBrace, RBrace, LBrack, RBrack, Colon, WS, S("Lender Name"), J("x")}
ParseInputs == {ServiceError, NoText} \cup {Text(t) : t \in SeqsUpTo(ParseAlphabet, MaxTextLen)}

AtExtract(l, txt) ==
    /\ pc = "extract"
    /\ i = l
    /\ today = 1
    /\ as_of = strftime(1)
    /\ rows = <<>>
    /\ log = <<>>
    /\ browser = [launched |-> TRUE, closed |-> TRUE]
    /\ html = Str("<html>")
    /\ text = txt
    /\ resp = NoResponse
    /\ parsed = [val |-> PyNone, d |-> <<>>]
    /\ hist = <<[NewEntry(l) EXCEPT !.fetched = TRUE, !.reduced = TRUE]>>
    /\ out = NoFile

InitParse == \E txt \in ScrapePages : AtExtract(1, txt)
NextParse == Extract(ParseInputs) \/ Normalize
SpecParse == InitParse /\ [][NextParse]_vars

(***************************************************************************)
(* The fallback extractor on every short page text: the run stands at line *)
(* 166 of some lender's iteration, and the extractor yields no result.     *)
(***************************************************************************)
PageAtoms == {"term loan", "TERM FINANCING", "Equipment Financing", "Credit Line", "z", " "}
PageTexts == SeqsUpTo(PageAtoms, MaxPageLen)
FailedResponses == {ServiceError, NoText, Text(<<J("not"), WS, J("json")>>)}

InitFallback ==
    \E l \in 1..Len(LENDERS) :
        /\ pc = "reduce"
        /\ i = l
        /\ today = 1
        /\ as_of = strftime(1)
        /\ rows = <<>>
        /\ log = <<>>
        /\ browser = [launched |-> TRUE, closed |-> TRUE]
        /\ html = Str("<html>")
        /\ text = <<>>
        /\ resp = NoResponse
        /\ parsed = [val |-> PyNone, d |-> <<>>]
        /\ hist = <<[NewEntry(l) EXCEPT !.fetched = TRUE]>>
        /\ out = NoFile
NextFallback == ReduceText(PageTexts) \/ Extract(FailedResponses) \/ Normalize
SpecFallback == InitFallback /\ [][NextFallback]_vars

(***************************************************************************)
(* write_csv on every short sequence of records scrape() can return: each  *)
(* record is an extractor result as line 183 appends it.                   *)
(***************************************************************************)
RawDicts ==
    { <<>>,
      <<[k |-> "Notes", v |-> Str("n")]>>,
      <<[k |-> "Lender Name", v |-> Str("X")], [k |-> "Lender Type", v |-> Str("Bank")],
        [k |-> "Starting Rate", v |-> Str("5%")]>>,
      fallback_parse_lender_data(<<"z">>, LENDERS[1], strftime(1)) }
RecordPool == {NormalizeRecord(d, LENDERS[1], strftime(1)) : d \in RawDicts}

InitCsv ==
    /\ pc = "done"
    /\ i = Len(LENDERS) + 1
    /\ today = 1
    /\ as_of = strftime(1)
    /\ rows \in SeqsUpTo(RecordPool, MaxRows)
    /\ log = <<>>
    /\ browser = [launched |-> TRUE, closed |-> TRUE]
    /\ html = PyNone
    /\ text = <<>>
    /\ resp = NoResponse
    /\ parsed = [val |-> PyNone, d |-> <<>>]
    /\ hist = <<>>
    /\ out = NoFile
SpecCsv == InitCsv /\ [][WriteCsv]_vars

(***************************************************************************)
(* Properties.                                                             *)
(***************************************************************************)
\* iteration k is over: the loop has moved past lender k
Finished(k) == k \in 1..Len(hist) /\ k < i
\* the last iteration is over, it reached the extractor, and no later one has begun:
\* text and resp are still those of that iteration
JustExtracted ==
    /\ pc \in {"fetch", "done"}
    /\ hist # <<>>
    /\ Len(hist) = i - 1
    /\ Last(hist).reduced

RECURSIVE SumRows(_)
SumRows(h) == IF h = <<>> THEN 0 ELSE Head(h).rows + SumRows(Tail(h))
RECURSIVE SumLines(_)
SumLines(h) == IF h = <<>> THEN 0 ELSE Head(h).lines + SumLines(Tail(h))

NormalizedKeys == {"As-of Date", "Lender Name", "Lender Type"}
\* rec is the dict d but for the three fields lines 178-181 rewrite
SameButNormalized(rec, d) ==
    /\ \A n \in 1..Len(d) : HasKey(rec, d[n].k)
    /\ \A n \in 1..Len(rec) :
          rec[n].k \notin NormalizedKeys =>
              HasKey(d, rec[n].k) /\ DictGet(d, rec[n].k) = rec[n].v

\* C1 as stated: every lender whose fetch returned non-empty markup has exactly one
\* record in the result sequence.
C1_RecordForEveryFetchedLender ==
    \A k \in 1..Len(hist) : (Finished(k) /\ hist[k].fetched) => hist[k].rows = 1

\* C1, amended: every lender whose fetch returned non-empty markup and whose text
\* reduction did not raise has exactly one record in the result sequence, whatever the
\* service answered; it is the extractor's result (normalized) when parse_with_gemini
\* returned one, and the fallback record otherwise.
C1_RecordForEveryExtractedLender ==
    /\ \A k \in 1..Len(hist) :
          (Finished(k) /\ hist[k].fetched /\ hist[k].reduced) =>
              hist[k].rows = 1 /\ hist[k].src \in {"ai", "fallback"}
    /\ JustExtracted =>
          LET ai == parse_with_gemini(resp)
              rec == rows[Len(rows)]
          IN  /\ rows # <<>>
              /\ (ai.val # PyNone) <=> (Last(hist).src = "ai")
              /\ ai.val # PyNone => SameButNormalized(rec, ai.d)
              /\ ai.val = PyNone =>
                    SameButNormalized(rec, fallback_parse_lender_data(text, LENDERS[i - 1], as_of))

\* a run in which one lender's record came from the extractor and another's from the
\* fallback
C1_Witness ==
    /\ pc = "done"
    /\ \E j, k \in 1..Len(hist) :
          /\ hist[j].src = "ai" /\ hist[j].rows = 1
          /\ hist[k].src = "fallback" /\ hist[k].rows = 1

Unsupplied == {PyNone, Str(""), Str("N/A")}

\* C2: every record of the result sequence has a Lender Name and a Lender Type that
\* are neither null, nor empty, nor "N/A".
C2_NameAndTypeSupplied ==
    \A n \in 1..Len(rows) :
        /\ DictGet(rows[n], "Lender Name") \notin Unsupplied
        /\ DictGet(rows[n], "Lender Type") \notin Unsupplied

\* C3: every record of the result sequence carries the date computed at the start of
\* the run, whatever As-of Date the extractor supplied and whatever the clock says
\* when the record is appended.
C3_OneAsOfDate ==
    /\ pc # "start" => as_of = strftime(1)
    /\ \A n \in 1..Len(rows) :
          HasKey(rows[n], "As-of Date") /\ DictGet(rows[n], "As-of Date") = Str(as_of)

\* after midnight, the extractor's record with its own As-of Date has been appended
C3_Witness ==
    /\ JustExtracted
    /\ Last(hist).src = "ai"
    /\ DictGet(parse_with_gemini(resp).d, "As-of Date") = Str("1999-01-01")
    /\ strftime(today) # as_of
    /\ Len(rows) >= 2

IsPrefix(a, b) == Len(a) <= Len(b) /\ SubSeq(b, 1, Len(a)) = a

\* the iterations so far are those of lenders 1, 2, ... in list order, each once; each
\* added at most one record; when scrape() returns, every lender has had its iteration
VisitedInOrder ==
    /\ pc # "start" => Len(hist) \in {i - 1, i}
    /\ \A k \in 1..Len(hist) : hist[k].lender = k /\ hist[k].rows \in {0, 1}
    /\ Len(rows) = SumRows(hist)
    /\ pc = "done" => Len(hist) = Len(LENDERS) /\ \A k \in 1..Len(hist) : Finished(k)

\* C4: a run of scrape() visits every lender exactly once, in list order, whatever
\* fails on the way; records are only ever added at the end of the result sequence, at
\* most one per lender, so they stand in the order of their lenders; and the run ends.
C4_VisitsEveryLenderAndEnds ==
    /\ []VisitedInOrder
    /\ [][IsPrefix(rows, rows')]_vars
    /\ <>(pc = "done")

\* scrape() has returned after a run in which lenders failed (at fetch and later) before
\* and between lenders that were collected
C4_Witness ==
    /\ pc = "done"
    /\ hist[1].rows = 0 /\ ~hist[1].fetched
    /\ hist[2].rows = 1
    /\ hist[3].rows = 0 /\ hist[3].fetched
    /\ hist[5].rows = 1

\* C8 as stated: an iteration appends a line to the error log exactly when it appends
\* no record, and then one line.
C8_LineExactlyWhenNoRecord ==
    \A k \in 1..Len(hist) :
        Finished(k) => hist[k].lines = (IF hist[k].rows = 0 THEN 1 ELSE 0)

\* the lender names of the log lines the iterations of h account for
RECURSIVE LoggedNames(_)
LoggedNames(h) ==
    IF h = <<>> THEN <<>>
    ELSE (IF Head(h).lines = 1 THEN <<LENDERS[Head(h).lender].name>> ELSE <<>>)
         \o LoggedNames(Tail(h))

\* C8, amended: an iteration appends a line to the error log exactly when it appends
\* no record or its record comes from the fallback extractor, and then one line, which
\* names its lender; an iteration whose record is the extractor's appends none.  The
\* lines of a run are as many as the lenders without a record plus the fallback records.
C8_LineWhenNoRecordOrFallback ==
    /\ \A k \in 1..Len(hist) :
          /\ hist[k].lines \in {0, 1}
          /\ Finished(k) =>
                hist[k].lines = (IF hist[k].rows = 0 \/ hist[k].src = "fallback" THEN 1 ELSE 0)
    /\ Len(log) = SumLines(hist)
    /\ [n \in 1..Len(log) |-> log[n].name] = LoggedNames(hist)
    /\ \A n \in 1..Len(log) : \E k \in 1..Len(LENDERS) :
          log[n].name = LENDERS[k].name /\ log[n].url = LENDERS[k].url

\* a finished run with a failed lender, a fallback record and an extractor's record
C8_Witness ==
    /\ pc = "done"
    /\ \E a, b, c \in 1..Len(hist) :
          /\ hist[a].rows = 0 /\ hist[a].lines = 1
          /\ hist[b].rows = 1 /\ hist[b].src = "fallback" /\ hist[b].lines = 1
          /\ hist[c].rows = 1 /\ hist[c].src = "ai" /\ hist[c].lines = 0

\* C9: whenever get_page_html has launched the browser it has closed it by the time it
\* is left, and a failing step of it reaches scrape() as None, never as an exception.
C9_BrowserClosedAndNoneReturned ==
    /\ browser.launched => browser.closed
    /\ \A n \in 1..Len(log) :
          log[n].reason \notin {"Exception: " \o step : step \in FetchSteps \ {"launch"}}

\* the part of t from its first "{" to its last "}" (empty when it has no "{", or no
\* "}" after the first "{")
BraceSpan(t) ==
    LET opens == {n \in 1..Len(t) : t[n] = LBrace}
        closes == {n \in 1..Len(t) : t[n] = RBrace}
    IN  IF opens = {} \/ closes = {}
        THEN <<>>
        ELSE SubSeq(t, CHOOSE a \in opens : \A n \in opens : a <= n,
                       CHOOSE b \in closes : \A n \in closes : b >= n)

\* a response has arrived and lines 170-175 have run on it
Extracted == pc = "normalize" /\ resp.kind # "none"

\* C5: the extractor never raises into scrape(); on a response text it decodes the
\* stripped text when that starts with "{" and otherwise its part from the first "{" to
\* the last "}"; what decodes is the result, and a service error or a decode error gives
\* no result, which is exactly when scrape() takes the fallback record and logs it.
C5_ParsingPolicy ==
    /\ resp.kind # "none" => Last(hist).src # "none" /\ ~parse_with_gemini(resp).raised
    /\ Extracted =>
          LET t == Strip(resp.text)
              decoded == JsonLoads(IF StartsWith(t, LBrace) THEN t ELSE BraceSpan(t))
              result == resp.kind = "text" /\ decoded.ok
          IN  /\ result => Last(hist).src = "ai" /\ parsed.val = decoded.val
                           /\ parsed.d = decoded.d /\ log = <<>>
              /\ ~result => /\ Last(hist).src = "fallback"
                            /\ parsed.d = fallback_parse_lender_data(text, LENDERS[i], as_of)
                            /\ Len(log) = 1

\* an object between a word of commentary before it and one after it is the result
C5_Witness ==
    /\ Extracted
    /\ resp.text = <<J("x"), LBrace, RBrace, WS, J("x")>>
    /\ Last(hist).src = "ai"
    /\ parsed.val.t = "dict"

\* C10: whatever the response, parse_with_gemini returns None or a dict: the text it
\* hands to the decoder starts with "{" or does not decode.  So lines 178-183 never
\* raise on it, and the lender gets its record.
C10_NoneOrDict ==
    /\ parse_with_gemini(resp).val.t \in {"NoneType", "dict"}
    /\ resp.kind = "text" =>
          LET js == JsonStr(Strip(resp.text))
          IN  StartsWith(js, LBrace) \/ ~JsonLoads(js).ok
    /\ Extracted => parsed.val.t = "dict"
    /\ (resp.kind # "none" /\ Finished(1)) =>
          /\ hist[1].rows = 1
          /\ \A n \in 1..Len(log) : log[n].reason # "Exception: TypeError"

\* an array holding one object: the object is the result and the lender is collected
C10_Witness ==
    /\ resp.kind = "text"
    /\ resp.text = <<LBrack, LBrace, RBrace, RBrack>>
    /\ Finished(1)
    /\ hist[1].src = "ai"
    /\ Len(rows) = 1

\* a phrase of the set stands in the page text with no word character next to it
Occurs(phrases) ==
    \E n \in 1..Len(text) :
        /\ text[n] \in phrases
        /\ n > 1 => text[n - 1] \in NonWordAtoms
        /\ n < Len(text) => text[n + 1] \in NonWordAtoms

\* the General Product Types of a page text made of PageAtoms
ExpectedProductTypes ==
    LET term == Occurs({"term loan", "TERM FINANCING"})
        equipment == Occurs({"Equipment Financing"})
        credit == Occurs({"Credit Line"})
    IN  CASE term /\ equipment /\ credit ->
                "Term Loans, Equipment Loans & Leases, Lines of Credit"
          [] term /\ equipment /\ ~credit -> "Term Loans, Equipment Loans & Leases"
          [] term /\ ~equipment /\ credit -> "Term Loans, Lines of Credit"
          [] term /\ ~equipment /\ ~credit -> "Term Loans"
          [] ~term /\ equipment /\ credit -> "Equipment Loans & Leases, Lines of Credit"
          [] ~term /\ equipment /\ ~credit -> "Equipment Loans & Leases"
          [] ~term /\ ~equipment /\ credit -> "Lines of Credit"
          [] OTHER -> "N/A"

DescriptorKeys == {"Lender Name", "Lender Type", "Product Page URL"}

\* C6: the fallback extractor returns a record for every page text and lender; its
\* General Product Types names the categories with a keyword in the text (whatever the
\* letter case, between word boundaries), each once, in table order, joined by ", ",
\* or is "N/A"; name, type and URL are the descriptor's, Notes is the fallback marker,
\* and every other field but As-of Date is "N/A".
C6_FallbackRecord ==
    (Extracted /\ Last(hist).src = "fallback") =>
        /\ parsed.val.t = "dict"
        /\ Len(parsed.d) = 19
        /\ DictGet(parsed.d, "General Product Types") = Str(ExpectedProductTypes)
        /\ DictGet(parsed.d, "Lender Name") = Str(LENDERS[i].name)
        /\ DictGet(parsed.d, "Lender Type") = Str(LENDERS[i].type)
        /\ DictGet(parsed.d, "Product Page URL") = Str(LENDERS[i].url)
        /\ DictGet(parsed.d, "Notes") = Str("Parsed with fallback parser")
        /\ \A n \in 1..Len(parsed.d) :
              parsed.d[n].k \notin DescriptorKeys \cup {"General Product Types", "Notes", "As-of Date"}
                  => parsed.d[n].v = Str("N/A")

\* a page naming a credit line before a term loan: the table's order, not the page's
C6_Witness ==
    /\ Extracted
    /\ Last(hist).src = "fallback"
    /\ text = <<"Credit Line", " ", "term loan">>
    /\ DictGet(parsed.d, "General Product Types") = Str("Term Loans, Lines of Credit")

\* write_csv has run on a non-empty result sequence
Written == pc \in {"written", "crashed"} /\ rows # <<>>

WithExtraKey == {n \in 1..Len(rows) : \E m \in 1..Len(rows[n]) : ~HasKey(rows[1], rows[n][m].k)}

=============================================================================
